---- MODULE Spec2Model ----
(***************************************************************************)
(* Ethereum -> Cosmos transaction builder (relayer-lib, eth_to_cosmos.rs)  *)
(* and the destination chain that executes the transactions it emits.      *)
(*                                                                         *)
(* One relay cycle (TxBuilder::relay_events) is a sequential task; `pc` is  *)
(* its position.  The beacon node, the destination chain's light client and *)
(* the destination clock are the environment.  An environment step is       *)
(* enabled right before the relayer reads the value it changes: an earlier  *)
(* change is indistinguishable from one at that point.                      *)
(*                                                                         *)
(* u64 values are carried by their two's complement representative: a       *)
(* negative integer r stands for the u64 value 2^64 + r.                    *)
(***************************************************************************)
EXTENDS Integers, Sequences, FiniteSets, TLC

\* ---------------------------------------------------------------- bounds
MaxSlot == 5
MaxUpdates == 2
MaxEvents == 2
MaxPolls == 2
MaxTrusted == 2
SlotsPerEpoch == 2
EpochsPerSyncCommitteePeriod == 1
BlockBase == 12
AttestedLag == 1
MaxForeignUpdates == 1
SecondsPerSlot == 2
GenesisTime == 3
DestOffset == 1
MaxContractSlot == 2

Slots == 0..MaxSlot
\* Option<T>: the empty set is None, {x} is Some(x).
None == {}
Some(x) == {x}

\* The execution block finalised at a beacon slot (one block per slot).
ExecBlockAt(slot) == BlockBase + slot

Last(s) == s[Len(s)]

\* Sequences over S of length at most n.
SeqUpTo(S, n) == UNION {[1..k -> S] : k \in 0..n}

VARIABLES
    pc,                     \* position of the relay cycle
    result,                 \* "none", "ok", "err", "timeout", "cancelled", "panic"
    beacon_slot,            \* finalized slot the beacon node reports
    client_state,           \* the light client's ClientState on the destination
    consensus_slots,        \* slots of the stored ConsensusStates
    dest_time,              \* time of the destination's latest block (seconds)
    src_events, dest_events, \* the arguments, until the conversions consume them
    no_events,              \* the call was made with both event lists empty
    latest_block_number,    \* get_block_number() at the entry of the call,
                            \* until the client state is loaded
    minimum_block_number,
    timeout_msgs, recv_msgs, ack_msgs,
    first_client_state,     \* the snapshot loaded before the readiness wait
    ethereum_client_state,  \* the snapshot in use
    finality_update,
    request,                \* the light_client_updates(start_period, count) call
    visited,                \* how many of the fetched updates the loop has visited
    update,                 \* the loop variable: the update being visited
    latest_trusted_slot, latest_period,
    headers,
    get_proof_calls,        \* the get_proof requests made for the headers
    proof_slot,
    tx_body,
    polls,
    exec_idx,               \* destination chain: next message of the tx to run
    output,                 \* what relay_events returned: Some(body) or None
    latests_tm_block,       \* the block time the succeeding poll of the final
                            \* wait read; None when no poll read one
    storage,                \* the light client contract: deps.storage
    contract_op,            \* the entry point called last, "none" before any
    contract_msg,           \* Some(its message)
    contract_result,        \* "none", "Ok", "Err"
    response                \* Some(the Response of an Ok)

contract_vars == <<storage, contract_op, contract_msg, contract_result, response>>

relay_vars == <<get_proof_calls, pc, result, beacon_slot, client_state, consensus_slots, dest_time,
          src_events, dest_events, no_events, latest_block_number,
          minimum_block_number, timeout_msgs, recv_msgs, ack_msgs,
          first_client_state, ethereum_client_state, finality_update, request,
          visited, update, latest_trusted_slot, latest_period,
          headers, proof_slot, tx_body, polls, exec_idx, output,
          latests_tm_block>>

vars == <<relay_vars, contract_vars>>

out_vars == <<output, latests_tm_block>>
env_vars == <<beacon_slot, client_state, consensus_slots, dest_time, contract_vars>>
entry_vars == <<src_events, dest_events, no_events, latest_block_number>>
msg_vars == <<entry_vars, minimum_block_number, timeout_msgs, recv_msgs, ack_msgs>>
plan_vars == <<get_proof_calls, finality_update, request, visited, update,
               latest_trusted_slot, latest_period, headers>>

\* ------------------------------------------------------------ data model
ClientStateAt(slot) ==
    [latest_slot |-> slot, latest_execution_block_number |-> ExecBlockAt(slot),
     genesis_time |-> GenesisTime, seconds_per_slot |-> SecondsPerSlot,
     ibc_contract_address |-> "ibc_contract", is_frozen |-> FALSE]

\* i64 -> u64 by try_into(): an error for a negative value.
try_into_u64(value) == IF value < 0 THEN None ELSE Some(value)

\* ClientState::compute_slot_at_timestamp: None before the genesis time.
compute_slot_at_timestamp(cs, timestamp) ==
    IF timestamp < cs.genesis_time THEN None
    ELSE Some((timestamp - cs.genesis_time) \div cs.seconds_per_slot)

\* ClientState::compute_sync_committee_period_at_slot
compute_sync_committee_period_at_slot(slot) ==
    slot \div (SlotsPerEpoch * EpochsPerSyncCommitteePeriod)

\* A LightClientUpdate the beacon API serves for a finalized slot.
LightClientUpdate(slot) ==
    [finalized_slot |-> slot,
     attested_slot |-> slot + AttestedLag,
     signature_slot |-> slot + AttestedLag + 1,
     block_number |-> ExecBlockAt(slot),
     next_sync_committee |-> "present"]

\* BeaconApiClient::finality_update: a LightClientFinalityUpdate carries no
\* next sync committee.
FinalityUpdate ==
    [LightClientUpdate(beacon_slot) EXCEPT !.next_sync_committee = "absent"]

Height(h) == [revision_number |-> 0, revision_height |-> h]

\* The client identifiers relay_events is called with, and the signer the
\* builder was created with.
src_client_id == "client-on-ethereum"
dst_client_id == "client-on-cosmos"
signer_address == "signer"

\* ------------------------------------------------------------ the events
\* EurekaEventWithHeight: the event kind and the optional block number.
SrcEvents == [kind : {"SendPacket", "WriteAcknowledgement"},
              block_number : {None, Some(ExecBlockAt(MaxSlot - 1))}]
\* Events at two different blocks, for the entry of the call alone.
EntrySrcEvents == [kind : {"SendPacket", "WriteAcknowledgement"},
                   block_number : {None, Some(ExecBlockAt(2)),
                                   Some(ExecBlockAt(MaxSlot - 1))}]
DestEvents == [kind : {"SendPacket"}, block_number : {None}]

RECURSIVE MaxOf(_)
MaxOf(S) == LET x == CHOOSE y \in S : TRUE
            IN IF S = {x} THEN x
               ELSE LET m == MaxOf(S \ {x}) IN IF x > m THEN x ELSE m

RECURSIVE MinOf(_)
MinOf(S) == LET x == CHOOSE y \in S : TRUE
            IN IF S = {x} THEN x
               ELSE LET m == MinOf(S \ {x}) IN IF x < m THEN x ELSE m

\* Faulty variant of MinimumBlockNumber: the smallest block number of the
\* events instead of the largest.
MinimumBlockNumberOfEarliest(src_events_, dest_events_, latest) ==
    IF dest_events_ = <<>>
    THEN LET from_events ==
                 UNION {src_events_[i].block_number : i \in DOMAIN src_events_}
         IN IF from_events = {} THEN latest ELSE MinOf(from_events)
    ELSE latest

\* relay_events: the block the light client has to reach.
MinimumBlockNumber(src_events_, dest_events_, latest) ==
    IF dest_events_ = <<>>
    THEN LET from_events ==
                 UNION {src_events_[i].block_number : i \in DOMAIN src_events_}
         IN IF from_events = {} THEN latest ELSE MaxOf(from_events)
    ELSE latest

PacketMsg(kind, target_height) ==
    [kind |-> kind, proof_height |-> target_height]

RECURSIVE EventsToMsgs(_, _, _, _, _)
EventsToMsgs(events, i, event_kind, msg_kind, target_height) ==
    IF i > Len(events) THEN <<>>
    ELSE (IF events[i].kind = event_kind
          THEN <<PacketMsg(msg_kind, target_height)>> ELSE <<>>)
         \o EventsToMsgs(events, i + 1, event_kind, msg_kind, target_height)

\* cosmos::target_events_to_timeout_msgs
target_events_to_timeout_msgs(events, target_height) ==
    EventsToMsgs(events, 1, "SendPacket", "timeout", target_height)

\* cosmos::src_events_to_recv_and_ack_msgs
src_events_to_recv_msgs(events, target_height) ==
    EventsToMsgs(events, 1, "SendPacket", "recv", target_height)
src_events_to_ack_msgs(events, target_height) ==
    EventsToMsgs(events, 1, "WriteAcknowledgement", "ack", target_height)

\* ------------------------------------------------------------------ Init
NoUpdate == [LightClientUpdate(0) EXCEPT !.next_sync_committee = "absent"]
NoRequest == [start_period |-> 0, count |-> 0]

\* The builder after construction, with the destination's light client at
\* the trusted slot and the destination's latest block at block_time.
InitAt(trusted, block_time) ==
    /\ pc = "idle"
    /\ result = "none"
    /\ beacon_slot \in Slots
    /\ client_state = ClientStateAt(trusted)
    /\ consensus_slots = {trusted}
    /\ dest_time = block_time
    /\ src_events = <<>> /\ dest_events = <<>>
    /\ no_events = FALSE
    /\ latest_block_number = 0
    /\ minimum_block_number = 0
    /\ timeout_msgs = <<>> /\ recv_msgs = <<>> /\ ack_msgs = <<>>
    /\ first_client_state = ClientStateAt(0)
    /\ ethereum_client_state = ClientStateAt(0)
    /\ finality_update = NoUpdate
    /\ request = NoRequest
    /\ visited = 0
    /\ update = NoUpdate
    /\ latest_trusted_slot = 0 /\ latest_period = 0
    /\ headers = <<>>
    /\ get_proof_calls = <<>>
    /\ proof_slot = 0
    /\ tx_body = <<>>
    /\ polls = 0
    /\ exec_idx = 0
    /\ output = None
    /\ latests_tm_block = None
    /\ storage = <<>>
    /\ contract_op = "none"
    /\ contract_msg = None
    /\ contract_result = "none"
    /\ response = None

\* The destination's clock is past the slot its light client trusts.
Init ==
    \E t \in 0..MaxTrusted :
        InitAt(t, GenesisTime + t * SecondsPerSlot + DestOffset)

\* The destination's latest block carries a time before the genesis time of
\* the client state, or a negative one.
EarlyClockTimes == {0 - 1, GenesisTime - 1}
EarlyClockInit ==
    \E t \in 0..MaxTrusted, time \in EarlyClockTimes : InitAt(t, time)

\* Faulty variant of Returned: what has been assembled is handed out on an
\* error too.
ReturnedAssembled(how, body) == Some(body)

\* The value the caller of relay_events receives: Ok(tx_body.encode_to_vec())
\* at the end of the function, nothing from an Err or an unwinding panic.
Returned(how, body) == IF how = "ok" THEN Some(body) ELSE None

\* relay_events returns without a transaction (an Err, or a panic unwinding):
\* every local of the call is dropped.
Abort(how) ==
    /\ pc' = "done"
    /\ result' = how
    /\ src_events' = <<>> /\ dest_events' = <<>>
    /\ no_events' = FALSE
    /\ latest_block_number' = 0
    /\ minimum_block_number' = 0
    /\ timeout_msgs' = <<>> /\ recv_msgs' = <<>> /\ ack_msgs' = <<>>
    /\ first_client_state' = ClientStateAt(0)
    /\ ethereum_client_state' = ClientStateAt(0)
    /\ finality_update' = NoUpdate
    /\ request' = NoRequest
    /\ visited' = 0
    /\ update' = NoUpdate
    /\ latest_trusted_slot' = 0 /\ latest_period' = 0
    /\ headers' = <<>>
    /\ get_proof_calls' = <<>>
    /\ proof_slot' = 0
    /\ tx_body' = <<>>
    /\ polls' = 0
    /\ output' = Returned(how, tx_body)
    /\ latests_tm_block' = None
    /\ UNCHANGED <<env_vars, exec_idx>>

\* --------------------------------------------------------- relay_events
\* The call: the scheduler passes the two event lists.
CallRelayEventsWith(events) ==
    /\ pc = "idle"
    /\ \E src \in SeqUpTo(events, MaxEvents), dest \in SeqUpTo(DestEvents, 1) :
          /\ src_events' = src
          /\ dest_events' = dest
          /\ no_events' = (src = <<>> /\ dest = <<>>)
    /\ pc' = "get_block_number"
    /\ UNCHANGED <<result, env_vars, latest_block_number, minimum_block_number,
                   timeout_msgs, recv_msgs, ack_msgs, first_client_state,
                   ethereum_client_state, plan_vars, proof_slot, tx_body, polls,
                   exec_idx, out_vars>>

CallRelayEvents == CallRelayEventsWith(SrcEvents)

\* Entry: get_block_number, minimum_block_number, the packet messages.  The
\* conversions take the event lists by value.
RelayEvents ==
    /\ pc = "get_block_number"
    /\ \E latest \in {ExecBlockAt(1), ExecBlockAt(MaxSlot)} :
          LET min_block == MinimumBlockNumber(src_events, dest_events, latest)
              target_height == Height(min_block)
          IN /\ latest_block_number' = latest
             /\ minimum_block_number' = min_block
             /\ timeout_msgs' = target_events_to_timeout_msgs(dest_events, target_height)
             /\ recv_msgs' = src_events_to_recv_msgs(src_events, target_height)
             /\ ack_msgs' = src_events_to_ack_msgs(src_events, target_height)
    /\ src_events' = <<>> /\ dest_events' = <<>>
    /\ pc' = "load_client_state"
    /\ UNCHANGED <<result, env_vars, no_events, first_client_state,
                   ethereum_client_state, plan_vars, proof_slot, tx_body, polls,
                   exec_idx, out_vars>>

\* Faulty variants of NeedsUpdate: >= for >; the block number is compared with
\* the client's latest slot.
NeedsUpdateAtEqual(min_block, cs) == min_block >= cs.latest_execution_block_number
NeedsUpdateBySlot(min_block, cs) == min_block > cs.latest_slot

\* The branch of "get updates if necessary".
NeedsUpdate(min_block, cs) == min_block > cs.latest_execution_block_number

\* self.ethereum_client_state(dst_client_id) and the branch on it.
\* latest_block_number is not read after minimum_block_number is computed
\* and is forgotten here.
LoadClientState ==
    /\ pc = "load_client_state"
    /\ ethereum_client_state' = client_state
    /\ first_client_state' = client_state
    /\ IF NeedsUpdate(minimum_block_number, client_state)
       THEN pc' = "wait_readiness" /\ UNCHANGED <<headers, get_proof_calls>>
       ELSE pc' = "inject_proofs" /\ headers' = <<>> /\ get_proof_calls' = <<>>
    /\ polls' = 0
    /\ latest_block_number' = 0
    /\ UNCHANGED <<result, env_vars, src_events, dest_events, no_events,
                   minimum_block_number, timeout_msgs, recv_msgs, ack_msgs,
                   finality_update, request, visited, update,
                   latest_trusted_slot, latest_period, proof_slot, tx_body,
                   exec_idx, out_vars>>

\* wait_for_condition(timeout, interval, condition): one poll.  The condition
\* is evaluated every `interval`; the wait ends with Ok at the first poll that
\* finds it true and with a timeout error once `timeout` has passed.  The
\* deadline is the MaxPolls-th poll.
wait_for_condition(condition_met, polled) ==
    IF condition_met THEN "ready"
    ELSE IF polled + 1 >= MaxPolls THEN "timeout" ELSE "retry"

\* Faulty variant of NextPoll: no time elapses between two polls.
PollWithoutElapsing(polled) == polled

\* wait_for_condition: the interval elapses before the condition is polled
\* again, one poll nearer to the deadline.
NextPoll(polled) == polled + 1

\* Faulty variant of ReadinessReached: > for >=.
ReadinessReachedStrictly(f, target_block_number) ==
    f.block_number > target_block_number

\* Faulty variant of ReadinessReached: the wait never holds the call back.
ReadinessReachedAlways(f, target_block_number) == TRUE

\* wait_for_light_client_readiness: the condition of the poll.
ReadinessReached(f, target_block_number) ==
    ~(f.block_number < target_block_number)

WaitForLightClientReadiness ==
    /\ pc = "wait_readiness"
    /\ LET outcome ==
               wait_for_condition(
                   ReadinessReached(FinalityUpdate, minimum_block_number), polls)
       IN
       IF outcome = "ready"
       THEN /\ pc' = "reload_client_state"
            /\ UNCHANGED <<polls, result, env_vars, msg_vars, first_client_state,
                           ethereum_client_state, plan_vars, proof_slot, tx_body,
                           exec_idx, out_vars>>
       ELSE IF outcome = "timeout"
            THEN Abort("timeout")
            ELSE /\ polls' = NextPoll(polls)
                 /\ UNCHANGED <<pc, result, env_vars, msg_vars, first_client_state,
                                ethereum_client_state, plan_vars, proof_slot,
                                tx_body, exec_idx, out_vars>>

\* Faulty variant of SnapshotAfterWait: the snapshot read before the wait
\* stays in use.
SnapshotBeforeWait(before, reloaded) == before

\* ethereum_client_state = self.ethereum_client_state(..).await?: the
\* snapshot read after the wait replaces the one read before it.
SnapshotAfterWait(before, reloaded) == reloaded

\* The re-load after the wait.
ReloadClientState ==
    /\ pc = "reload_client_state"
    /\ ethereum_client_state' = SnapshotAfterWait(ethereum_client_state, client_state)
    /\ pc' = "finality_update"
    /\ UNCHANGED <<result, env_vars, msg_vars, first_client_state, plan_vars,
                   proof_slot, tx_body, polls, exec_idx, out_vars>>

\* ---------------------------------------------------- get_update_headers
\* let finality_update = self.beacon_api_client.finality_update()
GetFinalityUpdate ==
    /\ pc = "finality_update"
    /\ finality_update' = FinalityUpdate
    /\ headers' = <<>>
    /\ get_proof_calls' = <<>>
    /\ pc' = "light_client_updates"
    /\ UNCHANGED <<result, env_vars, msg_vars, first_client_state,
                   ethereum_client_state, request, visited, update,
                   latest_trusted_slot, latest_period, proof_slot, tx_body, polls,
                   exec_idx, out_vars>>

\* target_period - trusted_period + 1 on u64.  With overflow checks the
\* subtraction panics when target_period < trusted_period; without them both
\* operations wrap, and the result is the representative of the wrapped value.
RequestCount(trusted_period, target_period) == target_period - trusted_period + 1
SubtractionOverflows(trusted_period, target_period) == target_period < trusted_period

\* get_light_client_updates, and the planner's initialisation.  The beacon API
\* answers with any sequence of at most MaxUpdates updates; the sequence is
\* drawn update by update as the planner loop visits it.
GetLightClientUpdates ==
    /\ pc = "light_client_updates"
    /\ LET trusted_period ==
               compute_sync_committee_period_at_slot(ethereum_client_state.latest_slot)
           target_period ==
               compute_sync_committee_period_at_slot(finality_update.finalized_slot)
       IN \/ /\ SubtractionOverflows(trusted_period, target_period)
             /\ Abort("panic")
          \/ /\ request' = [start_period |-> trusted_period,
                            count |-> RequestCount(trusted_period, target_period)]
             /\ visited' = 0
             /\ update' = NoUpdate
             /\ latest_trusted_slot' = ethereum_client_state.latest_slot
             /\ latest_period' = compute_sync_committee_period_at_slot(
                                     ethereum_client_state.latest_slot)
             /\ pc' = "planner_loop"
             /\ UNCHANGED <<result, env_vars, msg_vars, first_client_state,
                            ethereum_client_state, finality_update, headers,
                            get_proof_calls, proof_slot, tx_body, polls, exec_idx,
                            out_vars>>

\* get_sync_commitee_for_finalized_slot: the current sync committee of the
\* bootstrap at the block root of the slot.
get_sync_commitee_for_finalized_slot(slot) == [bootstrap_slot |-> slot]

\* Faulty variant of LowerHex: the digits of format!("{}", n).
RECURSIVE DecimalDigits(_)
DecimalDigits(n) ==
    IF n < 10 THEN <<n>> ELSE Append(DecimalDigits(n \div 10), n % 10)

\* format!("0x{:x}", n): the hexadecimal digits of n, most significant first.
RECURSIVE LowerHex(_)
LowerHex(n) == IF n < 16 THEN <<n>> ELSE Append(LowerHex(n \div 16), n % 16)

BlockHex(n) == [prefix |-> "0x", digits |-> LowerHex(n)]

\* The arguments of get_proof(&ibc_contract_address, vec![], block_hex).
ProofRequest(cs, u) ==
    [address |-> cs.ibc_contract_address,
     storage_keys |-> <<>>,
     block |-> BlockHex(u.block_number)]

\* EthApiClient::get_proof (eth_getProof): the execution node proves the
\* account, and the storage keys asked for, at the block the hexadecimal
\* string names.
RECURSIVE HexValue(_)
HexValue(digits) ==
    IF digits = <<>> THEN 0
    ELSE 16 * HexValue(SubSeq(digits, 1, Len(digits) - 1)) + digits[Len(digits)]

get_proof(req) ==
    LET at == [account |-> req.address, block_number |-> HexValue(req.block.digits)]
    IN [account_proof |-> [proves |-> "account", at |-> at],
        storage_hash |-> [proves |-> "storage_root", at |-> at],
        storage_proof |-> [i \in DOMAIN req.storage_keys |->
                              [key |-> req.storage_keys[i], at |-> at]]]

\* light_client_update_to_header
light_client_update_to_header(cs, active_sync_committee, u) ==
    LET proof == get_proof(ProofRequest(cs, u))
    IN [active_sync_committee |-> active_sync_committee,
        account_update |->
            [account_proof |-> [proof |-> proof.account_proof,
                                storage_root |-> proof.storage_hash]],
        consensus_update |-> u]

\* Faulty variants of the two checks: the check is missing.
NeverAlreadyTrusted(u, trusted_slot) == FALSE
NeverSamePeriod(u, period) == FALSE

\* The two `continue`s of the planner loop.
AlreadyTrusted(u, trusted_slot) == u.finalized_slot <= trusted_slot
SamePeriod(u, period) ==
    compute_sync_committee_period_at_slot(u.finalized_slot) = period

\* Faulty variant of NextHeader: the committee is bootstrapped at the attested
\* slot of the update.
NextHeaderAtAttestedSlot(u) ==
    light_client_update_to_header(
        ethereum_client_state,
        [tag |-> "Next",
         committee |-> get_sync_commitee_for_finalized_slot(u.attested_slot)],
        u)

\* The header the loop builds from an update: ActiveSyncCommittee::Next with
\* the committee bootstrapped at the update's finalized slot.
NextHeader(u) ==
    light_client_update_to_header(
        ethereum_client_state,
        [tag |-> "Next",
         committee |-> get_sync_commitee_for_finalized_slot(u.finalized_slot)],
        u)

\* One iteration of `for update in &light_client_updates`.
PlannerLoop ==
    /\ pc = "planner_loop"
    /\ \/ \* the iterator is exhausted
          /\ pc' = "final_header"
          /\ UNCHANGED <<visited, update, headers, get_proof_calls,
                         latest_trusted_slot, latest_period>>
       \/ \* the iterator yields the next update
          /\ visited < MaxUpdates
          /\ \E slot \in Slots : update' = LightClientUpdate(slot)
          /\ visited' = visited + 1
          /\ pc' = pc
          /\ IF AlreadyTrusted(update', latest_trusted_slot)
             THEN UNCHANGED <<headers, get_proof_calls, latest_trusted_slot,
                              latest_period>>
             ELSE IF SamePeriod(update', latest_period)
             THEN UNCHANGED <<headers, get_proof_calls, latest_trusted_slot,
                              latest_period>>
             ELSE /\ headers' = Append(headers, NextHeader(update'))
                  /\ get_proof_calls' =
                         Append(get_proof_calls,
                                ProofRequest(ethereum_client_state, update'))
                  /\ latest_period' = compute_sync_committee_period_at_slot(
                                          update'.finalized_slot)
                  /\ latest_trusted_slot' = update'.finalized_slot
    /\ UNCHANGED <<result, env_vars, msg_vars, first_client_state,
                   ethereum_client_state, finality_update, request,
                   proof_slot, tx_body, polls, exec_idx, out_vars>>

\* Faulty variants of NeedsFinalityHeader: <= for <; the header is always added.
NeedsFinalityHeaderAtEqual(hs, f) ==
    \/ hs = <<>>
    \/ Last(hs).consensus_update.finalized_slot <= f.finalized_slot
AlwaysFinalityHeader(hs, f) == TRUE

\* headers.last().is_none_or(|last| last.finalized slot < finality slot)
NeedsFinalityHeader(hs, f) ==
    \/ hs = <<>>
    \/ Last(hs).consensus_update.finalized_slot < f.finalized_slot

\* The header built from the finality update: ActiveSyncCommittee::Current
\* with the committee bootstrapped at the attested slot.
FinalityHeader(f) ==
    light_client_update_to_header(
        ethereum_client_state,
        [tag |-> "Current",
         committee |-> get_sync_commitee_for_finalized_slot(f.attested_slot)],
        f)

\* The header for the finality update, after the loop; get_update_headers
\* returns and its locals are dropped.
FinalHeader ==
    /\ pc = "final_header"
    /\ IF NeedsFinalityHeader(headers, finality_update)
       THEN /\ headers' = Append(headers, FinalityHeader(finality_update))
            /\ get_proof_calls' =
                   Append(get_proof_calls,
                          ProofRequest(ethereum_client_state, finality_update))
       ELSE UNCHANGED <<headers, get_proof_calls>>
    /\ visited' = 0
    /\ update' = NoUpdate
    /\ latest_trusted_slot' = 0 /\ latest_period' = 0
    /\ pc' = "inject_proofs"
    /\ UNCHANGED <<result, env_vars, msg_vars, first_client_state,
                   ethereum_client_state, finality_update, request,
                   proof_slot, tx_body, polls, exec_idx, out_vars>>

\* ------------------------------------------ relay_events, after planning
\* Faulty variant of ProofSlot: the first header instead of the last.
ProofSlotOfFirst(hs, cs) ==
    IF hs = <<>> THEN cs.latest_slot
    ELSE Head(hs).consensus_update.finalized_slot

\* headers.last().map_or(client_state.latest_slot, |h| h finalized slot)
ProofSlot(hs, cs) ==
    IF hs = <<>> THEN cs.latest_slot
    ELSE Last(hs).consensus_update.finalized_slot

\* cosmos::inject_ethereum_proofs: every message is proved at proof_slot.
inject_ethereum_proofs(msgs, slot) ==
    [i \in DOMAIN msgs |-> [msgs[i] EXCEPT !.proof_height = Height(slot)]]

InjectProofs ==
    /\ pc = "inject_proofs"
    /\ LET slot == ProofSlot(headers, ethereum_client_state)
       IN /\ proof_slot' = slot
          /\ recv_msgs' = inject_ethereum_proofs(recv_msgs, slot)
          /\ ack_msgs' = inject_ethereum_proofs(ack_msgs, slot)
          /\ timeout_msgs' = inject_ethereum_proofs(timeout_msgs, slot)
    /\ pc' = "build_tx"
    /\ UNCHANGED <<result, env_vars, entry_vars, minimum_block_number,
                   first_client_state, ethereum_client_state, plan_vars, tx_body,
                   polls, exec_idx, out_vars>>

\* serde_json::to_vec(&header): the JSON document with the header's fields.
serde_json_to_vec(value) == [format |-> "json", doc |-> value]

\* ClientMessage { data } and Any::from_msg: the type URL and the message.
ClientMessage(data) == [data |-> data]
AnyFromMsg(type_url, msg) == [type_url |-> type_url, value |-> msg]

\* Faulty variant of MsgUpdateClient: the source client's identifier.
MsgUpdateClientOfSourceClient(header) ==
    [kind |-> "update",
     client_id |-> src_client_id,
     client_message |->
         Some(AnyFromMsg("ClientMessage", ClientMessage(serde_json_to_vec(header)))),
     signer |-> signer_address]

\* The closure of update_msgs: one MsgUpdateClient for a header.
MsgUpdateClient(header) ==
    [kind |-> "update",
     client_id |-> dst_client_id,
     client_message |->
         Some(AnyFromMsg("ClientMessage", ClientMessage(serde_json_to_vec(header)))),
     signer |-> signer_address]

UpdateMsgs(hs) == [i \in DOMAIN hs |-> MsgUpdateClient(hs[i])]

\* Faulty variants of AllMsgs: acknowledgements chained before receives; the packet
\* messages chained before the updates.
AllMsgsAcksFirst(update_msgs, timeouts, recvs, acks) ==
    update_msgs \o timeouts \o acks \o recvs
AllMsgsPacketsFirst(update_msgs, timeouts, recvs, acks) ==
    timeouts \o recvs \o acks \o update_msgs

\* update_msgs.chain(timeout_msgs).chain(recv_msgs).chain(ack_msgs)
AllMsgs(update_msgs, timeouts, recvs, acks) ==
    update_msgs \o timeouts \o recvs \o acks

BuildTx ==
    /\ pc = "build_tx"
    /\ tx_body' = AllMsgs(UpdateMsgs(headers), timeout_msgs, recv_msgs, ack_msgs)
    /\ polls' = 0
    /\ pc' = "post_wait"
    /\ UNCHANGED <<result, env_vars, msg_vars, first_client_state,
                   ethereum_client_state, plan_vars, proof_slot, exec_idx, out_vars>>

\* Faulty variant of ChainCaughtUp: >= for >.
ChainCaughtUpAtEqual(hs, calculated_slot) ==
    \/ hs = <<>>
    \/ calculated_slot >= Last(hs).consensus_update.signature_slot

\* The final wait_for_condition: the condition of the poll.
ChainCaughtUp(hs, calculated_slot) ==
    \/ hs = <<>>
    \/ calculated_slot > Last(hs).consensus_update.signature_slot

\* One poll of the final wait.  Without headers the closure returns Ok(true)
\* before it queries the destination chain; with headers it reads the time
\* of the latest block and computes the slot at that time.
PostAssemblyWait ==
    /\ pc = "post_wait"
    /\ LET calculated_slot ==
               compute_slot_at_timestamp(ethereum_client_state, dest_time)
           outcome ==
               wait_for_condition(
                   ChainCaughtUp(headers, CHOOSE x \in calculated_slot : TRUE),
                   polls)
       IN
       IF headers # <<>> /\ (try_into_u64(dest_time) = None \/ calculated_slot = None)
       THEN Abort("panic")
       ELSE IF outcome = "ready"
       THEN /\ pc' = "done" /\ result' = "ok"
            /\ output' = Returned("ok", tx_body)
            /\ latests_tm_block' = IF headers = <<>> THEN None ELSE Some(dest_time)
            /\ UNCHANGED <<polls, env_vars, msg_vars, first_client_state,
                           ethereum_client_state, plan_vars, proof_slot, tx_body,
                           exec_idx>>
       ELSE IF outcome = "timeout"
            THEN Abort("timeout")
            ELSE /\ polls' = NextPoll(polls)
                 /\ UNCHANGED <<pc, result, env_vars, msg_vars, first_client_state,
                                ethereum_client_state, plan_vars, proof_slot,
                                tx_body, exec_idx, out_vars>>

\* Any `?` on an external call: the error is returned.
FetchPoints == {"get_block_number", "load_client_state", "wait_readiness",
                "reload_client_state", "finality_update", "light_client_updates",
                "planner_loop", "final_header", "inject_proofs", "post_wait"}

FetchFails ==
    /\ pc \in FetchPoints
    /\ pc = "post_wait" => headers # <<>>
    /\ Abort("err")

\* The enclosing task is cancelled: the future of relay_events is dropped at
\* the .await it is suspended at.
SuspensionPoints == FetchPoints

Cancelled ==
    /\ pc \in SuspensionPoints
    /\ Abort("cancelled")

\* ---------------------------------------------------------- environment
MaxDestSlot == MaxSlot + AttestedLag + 2
MaxDestTime == GenesisTime + MaxDestSlot * SecondsPerSlot
\* The destination produces a block every DestBlockSeconds.
DestBlockSeconds == SecondsPerSlot

\* Finality advances on the beacon chain.
BeaconAdvances ==
    /\ \/ pc = "wait_readiness"
          /\ ~ReadinessReached(FinalityUpdate, minimum_block_number)
       \/ pc = "finality_update"
    /\ beacon_slot < MaxSlot
    /\ beacon_slot' = beacon_slot + 1
    /\ UNCHANGED <<pc, result, client_state, consensus_slots, dest_time,
                   contract_vars, msg_vars,
                   first_client_state, ethereum_client_state, plan_vars,
                   proof_slot, tx_body, polls, exec_idx, out_vars>>

\* The destination chain produces a block with a later time.
DestinationTicks ==
    /\ pc = "post_wait"
    /\ \A slot \in compute_slot_at_timestamp(ethereum_client_state, dest_time) :
          ~ChainCaughtUp(headers, slot)
    /\ dest_time < MaxDestTime
    /\ dest_time' = dest_time + DestBlockSeconds
    /\ UNCHANGED <<pc, result, beacon_slot, client_state, consensus_slots,
                   contract_vars, msg_vars, first_client_state, ethereum_client_state, plan_vars,
                   proof_slot, tx_body, polls, exec_idx, out_vars>>

\* Another relayer's transaction advances the light client.
ForeignUpdate ==
    /\ pc = "reload_client_state"
    /\ Cardinality(consensus_slots) <= MaxForeignUpdates
    /\ \E slot \in Slots :
          /\ slot > client_state.latest_slot
          /\ client_state' = ClientStateAt(slot)
          /\ consensus_slots' = consensus_slots \cup {slot}
    /\ UNCHANGED <<pc, result, beacon_slot, dest_time, contract_vars, msg_vars,
                   first_client_state, ethereum_client_state, plan_vars,
                   proof_slot, tx_body, polls, exec_idx, out_vars>>

\* ------------------------------------- the destination runs the tx body
PacketKinds == {"timeout", "recv", "ack"}

\* The header an update message carries: the JSON document is parsed back.
serde_json_from_slice(data) == data.doc
HeaderOf(msg) ==
    serde_json_from_slice((CHOOSE any \in msg.client_message : TRUE).value.data)

\* The slots the update messages before position i store a consensus state at.
UpdatedSlots(body, i) ==
    {HeaderOf(body[j]).consensus_update.finalized_slot :
        j \in {k \in 1..(i - 1) : k <= Len(body) /\ body[k].kind = "update"}}

\* The consensus states message i of the transaction finds stored.
StoredConsensusSlots(body, i) == consensus_slots \cup UpdatedSlots(body, i)

\* The signed transaction reaches the destination chain.
SubmitTx ==
    /\ pc = "done" /\ result = "ok"
    /\ pc' = "deliver"
    /\ exec_idx' = 1
    /\ UNCHANGED <<result, env_vars, msg_vars, first_client_state,
                   ethereum_client_state, plan_vars, proof_slot, tx_body, polls,
                   out_vars>>

\* One message of the transaction: update_state stores a consensus state at
\* the finalised slot; verify_(non_)membership needs the consensus state at
\* the proof height.  A failing message fails the transaction as a whole.
DeliverMsg ==
    /\ pc = "deliver"
    /\ exec_idx <= Len(tx_body)
    /\ LET msg == tx_body[exec_idx]
       IN \/ /\ msg.kind \in PacketKinds
             /\ msg.proof_height.revision_height
                    \notin StoredConsensusSlots(tx_body, exec_idx)
             /\ pc' = "tx_failed" /\ UNCHANGED exec_idx
          \/ /\ msg.kind \in PacketKinds
             /\ msg.proof_height.revision_height
                    \in StoredConsensusSlots(tx_body, exec_idx)
             /\ pc' = pc /\ exec_idx' = exec_idx + 1
          \/ /\ msg.kind = "update"
             /\ pc' = pc /\ exec_idx' = exec_idx + 1
          \/ /\ pc' = "tx_failed" /\ UNCHANGED exec_idx
    /\ UNCHANGED <<result, env_vars, msg_vars, first_client_state,
                   ethereum_client_state, plan_vars, proof_slot, tx_body, polls,
                   out_vars>>

\* Every message succeeded: the transaction's writes are committed.
CommitTx ==
    /\ pc = "deliver"
    /\ exec_idx > Len(tx_body)
    /\ LET written == UpdatedSlots(tx_body, exec_idx)
           latest == MaxOf(written \cup {client_state.latest_slot})
       IN /\ consensus_slots' = consensus_slots \cup written
          /\ client_state' = ClientStateAt(latest)
    /\ pc' = "committed"
    /\ UNCHANGED <<result, beacon_slot, dest_time, contract_vars, msg_vars,
                   first_client_state,
                   ethereum_client_state, plan_vars, proof_slot, tx_body, polls,
                   exec_idx, out_vars>>

\* ------------------------------- the light client contract (contract.rs)
\* env!("CARGO_PKG_VERSION"), env!("CARGO_PKG_NAME")
STATE_VERSION == "CARGO_PKG_VERSION"
CONTRACT_NAME == "CARGO_PKG_NAME"

\* The storage keys: the client state, a consensus state, the cw2 record.
HOST_CLIENT_STATE_KEY == <<"clientState">>
consensus_db_key(slot) == <<"consensusStates", slot>>
CONTRACT_KEY == <<"contract_info">>

\* The slots of the states and headers the contract is called with.
ContractSlots == 0..MaxContractSlot

\* The Ethereum consensus state of a slot.
ConsensusStateAt(slot) ==
    [slot |-> slot, timestamp |-> GenesisTime + slot * SecondsPerSlot,
     state_root |-> "state_root"]

\* The byte strings an InstantiateMsg can carry: the JSON of a client state,
\* the JSON of a consensus state, bytes that are no JSON.
NotJson == [format |-> "garbage", doc |-> <<>>]
Bytes ==
    {serde_json_to_vec(ClientStateAt(slot)) : slot \in ContractSlots}
        \cup {serde_json_to_vec(ConsensusStateAt(slot)) : slot \in ContractSlots}
        \cup {NotJson}
Checksums == {"checksum", "other checksum"}
InstantiateMsgs ==
    [client_state : Bytes, consensus_state : Bytes, checksum : Checksums]

\* serde_json::from_slice::<EthClientState> and ::<EthConsensusState>: the
\* document must have the fields of the type.
decode_client_state(bytes) ==
    IF bytes.format = "json" /\ "latest_slot" \in DOMAIN bytes.doc
    THEN Some(bytes.doc) ELSE None
decode_consensus_state(bytes) ==
    IF bytes.format = "json" /\ "slot" \in DOMAIN bytes.doc
    THEN Some(bytes.doc) ELSE None

\* cw2::set_contract_version
set_contract_version(st, name, version) ==
    (CONTRACT_KEY :> [contract |-> name, version |-> version]) @@ st

WasmClientState(data, checksum, latest_height) ==
    [data |-> data, checksum |-> checksum, latest_height |-> latest_height]
WasmConsensusState(data) == [data |-> data]

\* instantiate::client: the outcomes of decoding the two states and storing
\* their envelopes.  A failure may come before or after the other state has
\* been stored.
instantiate_client(st, msg) ==
    LET decoded_client == decode_client_state(msg.client_state)
        decoded_consensus == decode_consensus_state(msg.consensus_state)
        with_client ==
            (HOST_CLIENT_STATE_KEY :>
                 AnyFromMsg("WasmClientState",
                     WasmClientState(
                         msg.client_state, msg.checksum,
                         {Height(cs.latest_slot) : cs \in decoded_client}))) @@ st
        consensus_entry ==
            [key \in {consensus_db_key(cons.slot) : cons \in decoded_consensus} |->
                 AnyFromMsg("WasmConsensusState",
                            WasmConsensusState(msg.consensus_state))]
    IN IF decoded_client # None /\ decoded_consensus # None
       THEN {[ok |-> TRUE, storage |-> consensus_entry @@ with_client]}
       ELSE {[ok |-> FALSE, storage |-> st]}
               \cup (IF decoded_client # None
                     THEN {[ok |-> FALSE, storage |-> with_client]} ELSE {})
               \cup (IF decoded_consensus # None
                     THEN {[ok |-> FALSE, storage |-> consensus_entry @@ st]}
                     ELSE {})

\* Response::default()
ResponseDefault ==
    [messages |-> <<>>, attributes |-> <<>>, events |-> <<>>, data |-> None]

\* Faulty variants of instantiate: the version record is not written; the
\* error of instantiate::client is dropped.
instantiate_without_version(st, msg) ==
    {[result |-> IF r.ok THEN "Ok" ELSE "Err",
      response |-> IF r.ok THEN Some(ResponseDefault) ELSE None,
      storage |-> r.storage] : r \in instantiate_client(st, msg)}
instantiate_ignoring_error(st, msg) ==
    {[result |-> "Ok",
      response |-> Some(ResponseDefault),
      storage |-> r.storage] :
        r \in instantiate_client(
                  set_contract_version(st, CONTRACT_NAME, STATE_VERSION), msg)}

\* The instantiate entry point: what it returns and what it leaves in
\* deps.storage.
instantiate(st, msg) ==
    {[result |-> IF r.ok THEN "Ok" ELSE "Err",
      response |-> IF r.ok THEN Some(ResponseDefault) ELSE None,
      storage |-> r.storage] :
        r \in instantiate_client(
                  set_contract_version(st, CONTRACT_NAME, STATE_VERSION), msg)}

\* The contract exists once instantiate succeeded: both states and the
\* version record are stored.
ConsensusKeys(st) ==
    {key \in DOMAIN st : key[1] = "consensusStates"}
Instantiated(st) ==
    /\ {CONTRACT_KEY, HOST_CLIENT_STATE_KEY} \subseteq DOMAIN st
    /\ ConsensusKeys(st) # {}

\* semver::Version: the versions a build of the package can carry, in order.
VersionOrder == <<"earlier CARGO_PKG_VERSION", STATE_VERSION,
                  "later CARGO_PKG_VERSION">>
VersionRank(version) ==
    CHOOSE i \in DOMAIN VersionOrder : VersionOrder[i] = version

\* Faulty variant of cw2::ensure_from_older_version: the stored version must
\* be strictly older.
ensure_from_strictly_older_version(st, name, new_version) ==
    IF CONTRACT_KEY \notin DOMAIN st THEN [ok |-> FALSE, storage |-> st]
    ELSE LET stored == st[CONTRACT_KEY]
         IN IF name # stored.contract
               \/ VersionRank(stored.version) >= VersionRank(new_version)
            THEN [ok |-> FALSE, storage |-> st]
            ELSE [ok |-> TRUE,
                  storage |-> set_contract_version(st, name, new_version)]

\* cw2::ensure_from_older_version: an error for another contract name and for
\* a stored version greater than the new one; an older stored version is
\* replaced by the new one; an equal one passes.
ensure_from_older_version(st, name, new_version) ==
    IF CONTRACT_KEY \notin DOMAIN st THEN [ok |-> FALSE, storage |-> st]
    ELSE LET stored == st[CONTRACT_KEY]
         IN IF name # stored.contract
            THEN [ok |-> FALSE, storage |-> st]
            ELSE IF VersionRank(stored.version) > VersionRank(new_version)
            THEN [ok |-> FALSE, storage |-> st]
            ELSE IF VersionRank(stored.version) < VersionRank(new_version)
            THEN [ok |-> TRUE,
                  storage |-> set_contract_version(st, name, new_version)]
            ELSE [ok |-> TRUE, storage |-> st]

\* MigrateMsg { instantiate_msg: Option<InstantiateMsg> }
MigrateMsgs ==
    [instantiate_msg : {None} \cup {Some(msg) : msg \in InstantiateMsgs}]

\* Faulty variant of migrate: the re-instantiate payload is ignored.
migrate_without_payload(st, msg) ==
    LET checked == ensure_from_older_version(st, CONTRACT_NAME, STATE_VERSION)
    IN IF ~checked.ok
       THEN {[result |-> "Err", response |-> None, storage |-> st]}
       ELSE {[result |-> "Ok", response |-> Some(ResponseDefault),
              storage |-> checked.storage]}

\* The migrate entry point.
migrate(st, msg) ==
    LET checked == ensure_from_older_version(st, CONTRACT_NAME, STATE_VERSION)
    IN IF ~checked.ok
       THEN {[result |-> "Err", response |-> None, storage |-> st]}
       ELSE IF msg.instantiate_msg # None
       THEN {[result |-> IF r.ok THEN "Ok" ELSE "Err",
              response |-> IF r.ok THEN Some(ResponseDefault) ELSE None,
              storage |-> r.storage] :
                r \in UNION {instantiate_client(checked.storage, instantiate_msg) :
                                instantiate_msg \in msg.instantiate_msg}}
       ELSE {[result |-> "Ok", response |-> Some(ResponseDefault),
              storage |-> checked.storage]}

\* The chain calls an entry point of the instantiated contract.
Called(op, msg, out) ==
    /\ contract_op' = op
    /\ contract_msg' = Some(msg)
    /\ storage' = out.storage
    /\ contract_result' = out.result
    /\ response' = out.response
    /\ UNCHANGED relay_vars

Migrate ==
    /\ contract_op = "idle"
    /\ Instantiated(storage)
    /\ \E msg \in MigrateMsgs :
          \E out \in migrate(storage, msg) : Called("migrate", msg, out)

\* ---- the stored states
get_eth_client_state(st) ==
    serde_json_from_slice(st[HOST_CLIENT_STATE_KEY].value.data)
get_eth_consensus_state(st, slot) ==
    IF consensus_db_key(slot) \in DOMAIN st
    THEN Some(serde_json_from_slice(st[consensus_db_key(slot)].value.data))
    ELSE None
store_client_state(st, cs) ==
    (HOST_CLIENT_STATE_KEY :>
         AnyFromMsg("WasmClientState",
             WasmClientState(serde_json_to_vec(cs),
                             st[HOST_CLIENT_STATE_KEY].value.checksum,
                             Some(Height(cs.latest_slot))))) @@ st
store_consensus_state(st, cons) ==
    (consensus_db_key(cons.slot) :>
         AnyFromMsg("WasmConsensusState",
                    WasmConsensusState(serde_json_to_vec(cons)))) @@ st

\* ---- the messages of sudo, query and execute
StateRoots == {"state_root", "other state_root"}

\* A Header as the relayer builds it, with the parts of the update the
\* verifier reads: the state root of the finalized header and whether the
\* sync aggregate is a valid signature of the trusted committee.
ContractHeader(slot, root, sync_aggregate) ==
    light_client_update_to_header(
        ClientStateAt(slot),
        [tag |-> "Next", committee |-> get_sync_commitee_for_finalized_slot(slot)],
        [state_root |-> root, sync_aggregate |-> sync_aggregate]
            @@ LightClientUpdate(slot))
ContractHeaders ==
    {ContractHeader(slot, root, "valid") :
         slot \in ContractSlots, root \in StateRoots}
        \cup {ContractHeader(MaxContractSlot, "state_root", "invalid")}
ClientMessages == {serde_json_to_vec(h) : h \in ContractHeaders} \cup {NotJson}
Heights == {Height(slot) : slot \in ContractSlots}

ReservedSudoMsgs == {"VerifyUpgradeAndUpdateState", "MigrateClientStore"}
SudoMsgs ==
    [variant : {"UpdateState", "UpdateStateOnMisbehaviour"},
     client_message : ClientMessages]
        \cup [variant : {"VerifyMembership", "VerifyNonMembership"},
              height : Heights, proof : StateRoots]
        \cup [variant : ReservedSudoMsgs]
QueryMsgs ==
    [variant : {"VerifyClientMessage", "CheckForMisbehaviour"},
     client_message : ClientMessages]
        \cup [variant : {"TimestampAtHeight"}, height : Heights]
        \cup [variant : {"Status"}]
ExecuteMsgs == {[variant |-> "ExecuteMsg"]}

\* serde_json::from_slice::<Header>
decode_header(bytes) ==
    IF bytes.format = "json" /\ "consensus_update" \in DOMAIN bytes.doc
    THEN Some(bytes.doc) ELSE None

\* ---- the handlers: [ok, data, storage]
Failed(st) == [ok |-> FALSE, data |-> None, storage |-> st]
Done(data, st) == [ok |-> TRUE, data |-> Some(data), storage |-> st]
to_json_binary(value) == serde_json_to_vec(value)

\* The verification of a header against the stored states: the client is not
\* frozen, the sync aggregate is valid, signature_slot > attested slot >=
\* finalized slot.
verify_header(st, header) ==
    LET u == header.consensus_update
    IN /\ ~get_eth_client_state(st).is_frozen
       /\ u.sync_aggregate = "valid"
       /\ u.signature_slot > u.attested_slot
       /\ u.attested_slot >= u.finalized_slot

\* query::verify_client_message
verify_client_message(st, msg) ==
    LET decoded == decode_header(msg.client_message)
    IN IF \E header \in decoded : verify_header(st, header)
       THEN Done(<<>>, st) ELSE Failed(st)

\* A conflicting consensus state is stored at the slot of the header.
Conflicting(st, header) ==
    \E cons \in get_eth_consensus_state(st, header.consensus_update.finalized_slot) :
        cons.state_root # header.consensus_update.state_root

\* Faulty variant of check_for_misbehaviour: any consensus state stored at the
\* slot of the header counts.
check_for_misbehaviour_by_slot(st, msg) ==
    LET decoded == decode_header(msg.client_message)
    IN IF decoded = None THEN Failed(st)
       ELSE Done(to_json_binary(
                     [found_misbehaviour |->
                         \E header \in decoded :
                            get_eth_consensus_state(
                                st, header.consensus_update.finalized_slot) # None]),
                 st)

\* query::check_for_misbehaviour
check_for_misbehaviour(st, msg) ==
    LET decoded == decode_header(msg.client_message)
    IN IF decoded = None THEN Failed(st)
       ELSE Done(to_json_binary(
                     [found_misbehaviour |->
                         \E header \in decoded : Conflicting(st, header)]),
                 st)

\* query::timestamp_at_height
timestamp_at_height(st, msg) ==
    LET found == get_eth_consensus_state(st, msg.height.revision_height)
    IN IF found = None THEN Failed(st)
       ELSE Done(to_json_binary(
                     [timestamp |-> (CHOOSE cons \in found : TRUE).timestamp]),
                 st)

\* query::status
status(st) ==
    Done(to_json_binary([status |-> IF get_eth_client_state(st).is_frozen
                                    THEN "Frozen" ELSE "Active"]), st)

\* The consensus state and the client state after a header.
ConsensusStateOf(header) ==
    [ConsensusStateAt(header.consensus_update.finalized_slot)
         EXCEPT !.state_root = header.consensus_update.state_root]
UpdatedClientState(cs, header) ==
    LET u == header.consensus_update
    IN [cs EXCEPT
           !.latest_slot = IF u.finalized_slot > @ THEN u.finalized_slot ELSE @,
           !.latest_execution_block_number =
               IF u.block_number > @ THEN u.block_number ELSE @]

\* Faulty variant of update_state: the height returned is the latest height
\* of the client.
update_state_returning_latest(st, msg) ==
    LET decoded == decode_header(msg.client_message)
    IN IF \E header \in decoded : verify_header(st, header)
       THEN LET header == CHOOSE h \in decoded : TRUE
                cs == UpdatedClientState(get_eth_client_state(st), header)
            IN Done(to_json_binary([heights |-> <<Height(cs.latest_slot)>>]),
                    store_client_state(
                        store_consensus_state(st, ConsensusStateOf(header)), cs))
       ELSE Failed(st)

\* sudo::update_state
update_state(st, msg) ==
    LET decoded == decode_header(msg.client_message)
    IN IF \E header \in decoded : verify_header(st, header)
       THEN LET header == CHOOSE h \in decoded : TRUE
                cs == UpdatedClientState(get_eth_client_state(st), header)
            IN Done(to_json_binary(
                        [heights |->
                            <<Height(header.consensus_update.finalized_slot)>>]),
                    store_client_state(
                        store_consensus_state(st, ConsensusStateOf(header)), cs))
       ELSE Failed(st)

\* sudo::misbehaviour: evidence freezes the client.
misbehaviour(st, msg) ==
    LET decoded == decode_header(msg.client_message)
    IN IF \E header \in decoded :
             verify_header(st, header) /\ Conflicting(st, header)
       THEN Done(<<>>,
                 store_client_state(
                     st, [get_eth_client_state(st) EXCEPT !.is_frozen = TRUE]))
       ELSE Failed(st)

\* The Merkle-Patricia proof of a path against the storage of a consensus
\* state.
ProofVerifies(st, msg) ==
    \E cons \in get_eth_consensus_state(st, msg.height.revision_height) :
        cons.state_root = msg.proof

\* Faulty variant of verify_membership: the verification is recorded in
\* storage.
verify_membership_recording(st, msg) ==
    IF ProofVerifies(st, msg)
    THEN Done(<<>>, (<<"verified">> :> msg.height) @@ st)
    ELSE Failed(st)

\* sudo::verify_membership and sudo::verify_non_membership, called with
\* deps.as_ref(): no write.
verify_membership(st, msg) ==
    IF ProofVerifies(st, msg) THEN Done(<<>>, st) ELSE Failed(st)
verify_non_membership(st, msg) ==
    IF ProofVerifies(st, msg) THEN Done(<<>>, st) ELSE Failed(st)

\* ---- the entry points: {[result, response, storage]}
Panic(st) == [result |-> "panic", response |-> None, storage |-> st]
Err(st) == [result |-> "Err", response |-> None, storage |-> st]

\* The arms of sudo that call a handler, and
\* Ok(Response::default().set_data(result)).
SudoHandled(st, msg) ==
    LET r == CASE msg.variant = "VerifyMembership" -> verify_membership(st, msg)
               [] msg.variant = "VerifyNonMembership" ->
                      verify_non_membership(st, msg)
               [] msg.variant = "UpdateState" -> update_state(st, msg)
               [] msg.variant = "UpdateStateOnMisbehaviour" ->
                      misbehaviour(st, msg)
    IN IF r.ok
       THEN [result |-> "Ok",
             response |-> Some([ResponseDefault EXCEPT !.data = r.data]),
             storage |-> r.storage]
       ELSE Err(r.storage)

\* Faulty variant of sudo: the reserved messages are accepted.
sudo_accepting_reserved(st, msg) ==
    IF msg.variant \in ReservedSudoMsgs
    THEN {[result |-> "Ok", response |-> Some(ResponseDefault), storage |-> st]}
    ELSE {SudoHandled(st, msg)}

\* The sudo entry point: todo!() panics.
sudo(st, msg) ==
    IF msg.variant \in ReservedSudoMsgs
    THEN {Panic(st)}
    ELSE {SudoHandled(st, msg)}

\* The execute entry point: unimplemented!() panics.
execute(st, msg) == {Panic(st)}

\* The query entry point: Deps gives no write access; Ok carries the Binary.
query(st, msg) ==
    LET r == CASE msg.variant = "VerifyClientMessage" ->
                      verify_client_message(st, msg)
               [] msg.variant = "CheckForMisbehaviour" ->
                      check_for_misbehaviour(st, msg)
               [] msg.variant = "TimestampAtHeight" ->
                      timestamp_at_height(st, msg)
               [] msg.variant = "Status" -> status(st)
    IN {IF r.ok
        THEN [result |-> "Ok", response |-> r.data, storage |-> st]
        ELSE Err(st)}

Sudo ==
    /\ contract_op = "idle"
    /\ Instantiated(storage)
    /\ \E msg \in SudoMsgs :
          \E out \in sudo(storage, msg) : Called("sudo", msg, out)

Execute ==
    /\ contract_op = "idle"
    /\ Instantiated(storage)
    /\ \E msg \in ExecuteMsgs :
          \E out \in execute(storage, msg) : Called("execute", msg, out)

Query ==
    /\ contract_op = "idle"
    /\ Instantiated(storage)
    /\ \E msg \in QueryMsgs :
          \E out \in query(storage, msg) : Called("query", msg, out)

\* The host chain has taken the result: the call is over.
Return ==
    /\ contract_op \notin {"none", "idle"}
    /\ contract_op' = "idle"
    /\ contract_msg' = None
    /\ contract_result' = "none"
    /\ response' = None
    /\ UNCHANGED <<storage, relay_vars>>

\* The chain instantiates the contract, once.
Instantiate ==
    /\ contract_op = "none"
    /\ \E msg \in InstantiateMsgs :
          \E out \in instantiate(storage, msg) :
             /\ contract_msg' = Some(msg)
             /\ storage' = out.storage
             /\ contract_result' = out.result
             /\ response' = out.response
    /\ contract_op' = "instantiate"
    /\ UNCHANGED relay_vars

ContractInit ==
    /\ Init
    /\ beacon_slot = 0
    /\ client_state = ClientStateAt(0)

ContractNext ==
    \/ Instantiate
    \/ Migrate
    \/ Sudo
    \/ Execute
    \/ Query
    \/ Return

ContractSpec == ContractInit /\ [][ContractNext]_vars

Next ==
    \/ CallRelayEvents
    \/ RelayEvents
    \/ LoadClientState
    \/ WaitForLightClientReadiness
    \/ ReloadClientState
    \/ GetFinalityUpdate
    \/ GetLightClientUpdates
    \/ PlannerLoop
    \/ FinalHeader
    \/ InjectProofs
    \/ BuildTx
    \/ PostAssemblyWait
    \/ FetchFails
    \/ Cancelled
    \/ BeaconAdvances
    \/ DestinationTicks
    \/ ForeignUpdate
    \/ SubmitTx
    \/ DeliverMsg
    \/ CommitTx

Spec == Init /\ [][Next]_vars

\* The steps relay_events takes itself.  Each of them ends with an awaited
\* external call; when every such call returns, the next step is taken.
RelayStep ==
    \/ RelayEvents
    \/ LoadClientState
    \/ WaitForLightClientReadiness
    \/ ReloadClientState
    \/ GetFinalityUpdate
    \/ GetLightClientUpdates
    \/ PlannerLoop
    \/ FinalHeader
    \/ InjectProofs
    \/ BuildTx
    \/ PostAssemblyWait

\* One invocation of relay_events from the call to its return, with its
\* environment.  The kinds of the events do not decide which steps are taken:
\* the calls are made with SendPacket events that carry a block number (an
\* event without one is skipped by the entry step).
TerminationSrcEvents ==
    {e \in SrcEvents : e.kind = "SendPacket" /\ e.block_number # None}
TerminationCall == CallRelayEventsWith(TerminationSrcEvents)

TerminationNext ==
    \/ TerminationCall
    \/ RelayStep
    \/ FetchFails
    \/ BeaconAdvances
    \/ DestinationTicks
    \/ ForeignUpdate

\* The same invocation, started while the destination's clock is early.
EarlyClockSpec == EarlyClockInit /\ [][TerminationNext]_vars

\* Every awaited external call returns: a step of relay_events that can be
\* taken is taken.
FairSpec == Init /\ [][TerminationNext]_vars /\ WF_vars(RelayStep)

\* The entry of relay_events alone, called with events at different blocks.
EntryCall == CallRelayEventsWith(EntrySrcEvents)

EntryNext ==
    \/ EntryCall
    \/ RelayEvents

EntrySpec == Init /\ [][EntryNext]_vars

\* ================================================================ claims
MsgRank(kind) ==
    CASE kind = "update" -> 0 [] kind = "timeout" -> 1
      [] kind = "recv" -> 2 [] kind = "ack" -> 3

OfKind(body, kind) == SelectSeq(body, LAMBDA m : m.kind = kind)

PeriodOfHeader(h) ==
    h.consensus_update.finalized_slot \div (SlotsPerEpoch * EpochsPerSyncCommitteePeriod)

Tagged(hs, tag) == SelectSeq(hs, LAMBDA h : h.active_sync_committee.tag = tag)

\* relay_events has planned and not returned an error.
Planned == pc \in {"inject_proofs", "build_tx", "post_wait"} \/ result = "ok"
\* relay_events has built the transaction body and not returned an error.
Built == pc = "post_wait" \/ result = "ok"

\* C1: the messages of the body of a successful relay_events are the update
\* messages of the headers, then the timeout messages, then the recv messages,
\* then the ack messages: no message of a later class precedes one of an
\* earlier class, and each class is the list the cycle built for it.
C1_MessageOrder ==
    result = "ok" =>
        /\ \A i, j \in DOMAIN tx_body :
              i < j => MsgRank(tx_body[i].kind) <= MsgRank(tx_body[j].kind)
        /\ OfKind(tx_body, "update") = UpdateMsgs(headers)
        /\ OfKind(tx_body, "timeout") = timeout_msgs
        /\ OfKind(tx_body, "recv") = recv_msgs
        /\ OfKind(tx_body, "ack") = ack_msgs
        /\ Len(tx_body) = Len(headers) + Len(timeout_msgs) + Len(recv_msgs)
                              + Len(ack_msgs)

C1_Witness ==
    /\ result = "ok"
    /\ Len(headers) >= 2
    /\ timeout_msgs # <<>> /\ recv_msgs # <<>> /\ ack_msgs # <<>>

\* C2: the proof slot the packet messages are proved at is the finalized slot
\* of the last header, or the latest slot of the client state in use when
\* there is no header.
C2_ProofSlot ==
    (pc \in {"build_tx", "post_wait"} \/ result = "ok") =>
        /\ headers = <<>> => proof_slot = ethereum_client_state.latest_slot
        /\ headers # <<>> =>
              proof_slot = headers[Len(headers)].consensus_update.finalized_slot
        /\ \A m \in {recv_msgs[i] : i \in DOMAIN recv_msgs}
                      \cup {ack_msgs[i] : i \in DOMAIN ack_msgs}
                      \cup {timeout_msgs[i] : i \in DOMAIN timeout_msgs} :
              m.proof_height = [revision_number |-> 0, revision_height |-> proof_slot]

C2_Witness ==
    /\ pc = "build_tx"
    /\ Len(headers) >= 2
    /\ headers[1].consensus_update.finalized_slot
           # headers[Len(headers)].consensus_update.finalized_slot
    /\ proof_slot = headers[Len(headers)].consensus_update.finalized_slot
    /\ recv_msgs # <<>>

\* C3: in the header list of the planner the periods of consecutive headers
\* strictly increase, except that the last header may be the Current-tagged
\* header of the finality update in the period of the header before it.
StrictlyIncreasingPeriods(hs, n) ==
    \A i \in 1..(n - 1) : PeriodOfHeader(hs[i]) < PeriodOfHeader(hs[i + 1])

C3_HeaderPeriods ==
    LET n == Len(headers)
    IN \/ StrictlyIncreasingPeriods(headers, n)
       \/ /\ n >= 2
          /\ headers[n].active_sync_committee.tag = "Current"
          /\ headers[n].consensus_update = finality_update
          /\ PeriodOfHeader(headers[n]) = PeriodOfHeader(headers[n - 1])
          /\ StrictlyIncreasingPeriods(headers, n - 1)

C3_Witness ==
    /\ pc = "inject_proofs"
    /\ Len(headers) = 3
    /\ headers[3].active_sync_committee.tag = "Current"
    /\ PeriodOfHeader(headers[3]) = PeriodOfHeader(headers[2])
    /\ PeriodOfHeader(headers[1]) < PeriodOfHeader(headers[2])

\* C4: when the destination runs the messages of an emitted body in order,
\* each packet message is proved at {0, proof_slot} and is reached with a
\* consensus state stored at that slot: the one at the client's latest slot
\* when the body has no update, one stored by an earlier update message of
\* the same transaction otherwise.
C4_ConsensusStateAtProofHeight ==
    (pc = "deliver" /\ exec_idx <= Len(tx_body)
        /\ tx_body[exec_idx].kind \in PacketKinds) =>
        LET height == tx_body[exec_idx].proof_height
            earlier == {HeaderOf(tx_body[j]).consensus_update.finalized_slot :
                           j \in {k \in 1..(exec_idx - 1) : tx_body[k].kind = "update"}}
        IN /\ height = [revision_number |-> 0, revision_height |-> proof_slot]
           /\ height.revision_height \in consensus_slots \cup earlier
           /\ headers = <<>> => height.revision_height = first_client_state.latest_slot
           /\ headers # <<>> => height.revision_height \in earlier

C4_Witness ==
    /\ pc = "deliver" /\ exec_idx <= Len(tx_body)
    /\ tx_body[exec_idx].kind = "recv"
    /\ headers # <<>>
    /\ tx_body[exec_idx].proof_height.revision_height \notin consensus_slots

\* C5: the planner runs, after the readiness wait and the re-load, exactly
\* when minimum_block_number exceeds the latest execution block number of the
\* client state loaded first; otherwise there is no header and the body holds
\* no update message.
C5_UpdateIffBehind ==
    LET behind == minimum_block_number
                      > first_client_state.latest_execution_block_number
    IN /\ pc \in {"wait_readiness", "reload_client_state", "finality_update",
                  "light_client_updates", "planner_loop", "final_header"}
              => behind
       /\ Planned => (headers # <<>> <=> behind)
       /\ Built => (OfKind(tx_body, "update") # <<>> <=> behind)

C5_Witness ==
    /\ result = "ok"
    /\ minimum_block_number = first_client_state.latest_execution_block_number
    /\ headers = <<>>
    /\ tx_body # <<>>

\* C6: a visited update whose finalized slot is at most latest_trusted_slot
\* adds no header and leaves latest_trusted_slot and latest_period unchanged.
C6_SkipAlreadyTrusted ==
    [][(pc = "planner_loop" /\ pc' = "planner_loop" /\ visited' = visited + 1
          /\ update'.finalized_slot <= latest_trusted_slot)
         => (headers' = headers /\ latest_trusted_slot' = latest_trusted_slot
               /\ latest_period' = latest_period)]_vars

C6_Witness ==
    /\ pc = "planner_loop"
    /\ visited = 2
    /\ Len(headers) = 1
    /\ update.finalized_slot < latest_trusted_slot
    /\ update.finalized_slot > ethereum_client_state.latest_slot
    /\ PeriodOfHeader(headers[1]) # update.finalized_slot
                  \div (SlotsPerEpoch * EpochsPerSyncCommitteePeriod)

\* C7: a visited update in the period latest_period adds no header; the
\* Next-tagged headers lie in pairwise different periods, none in the period
\* of the trusted slot; latest_period is the integer quotient of
\* latest_trusted_slot by slots_per_epoch * epochs_per_sync_committee_period.
C7_NextHeaders ==
    LET next == Tagged(headers, "Next")
        length == SlotsPerEpoch * EpochsPerSyncCommitteePeriod
    IN /\ \A i, j \in DOMAIN next :
             i # j => PeriodOfHeader(next[i]) # PeriodOfHeader(next[j])
       /\ \A i \in DOMAIN next :
             PeriodOfHeader(next[i]) # ethereum_client_state.latest_slot \div length
       /\ pc \in {"planner_loop", "final_header"} =>
             /\ latest_period * length <= latest_trusted_slot
             /\ latest_trusted_slot < (latest_period + 1) * length

C7_OnePerPeriod ==
    /\ [][(pc = "planner_loop" /\ pc' = "planner_loop" /\ visited' = visited + 1
             /\ update'.finalized_slot \div (SlotsPerEpoch * EpochsPerSyncCommitteePeriod)
                    = latest_period)
            => headers' = headers]_vars
    /\ []C7_NextHeaders

C7_Witness ==
    /\ pc = "planner_loop"
    /\ visited = 2
    /\ Len(headers) = 1
    /\ update.finalized_slot > latest_trusted_slot
    /\ update.finalized_slot \div (SlotsPerEpoch * EpochsPerSyncCommitteePeriod)
           = latest_period

\* C8: after the loop the planner adds one header, built from the finality
\* update F and tagged Current with the committee bootstrapped at F's attested
\* slot, exactly when the loop produced no header or its last header's
\* finalized slot is below F's; otherwise it adds nothing.
C8_FinalityHeader ==
    (Planned /\ minimum_block_number
                    > first_client_state.latest_execution_block_number) =>
        LET next == Tagged(headers, "Next")
            from_f ==
                [active_sync_committee |->
                     [tag |-> "Current",
                      committee |-> [bootstrap_slot |-> finality_update.attested_slot]],
                 account_update |->
                     [account_proof |->
                          [proof |->
                               [proves |-> "account",
                                at |-> [account |-> "ibc_contract",
                                        block_number |-> finality_update.block_number]],
                           storage_root |->
                               [proves |-> "storage_root",
                                at |-> [account |-> "ibc_contract",
                                        block_number |-> finality_update.block_number]]]],
                 consensus_update |-> finality_update]
        IN IF \/ next = <<>>
              \/ next[Len(next)].consensus_update.finalized_slot
                     < finality_update.finalized_slot
           THEN headers = Append(next, from_f)
           ELSE headers = next

C8_Witness ==
    /\ pc = "inject_proofs"
    /\ Len(headers) = 2
    /\ headers[2].active_sync_committee.tag = "Current"
    /\ headers[1].active_sync_committee.tag = "Next"
    /\ headers[2].active_sync_committee.committee.bootstrap_slot
           # headers[2].consensus_update.finalized_slot

\* C9: when the header of the finality update F is added, the period of F's
\* finalized slot is latest_period.
C9_FinalityInReachedPeriod ==
    (pc = "final_header"
        /\ (headers = <<>>
              \/ headers[Len(headers)].consensus_update.finalized_slot
                     < finality_update.finalized_slot))
      => finality_update.finalized_slot
             \div (SlotsPerEpoch * EpochsPerSyncCommitteePeriod) = latest_period

\* C10: the request is light_client_updates(trusted_period,
\* target_period - trusted_period + 1), with the count 1 when target_period is
\* below trusted_period, and computing it does not crash.
C10_RequestCount ==
    LET length == SlotsPerEpoch * EpochsPerSyncCommitteePeriod
        trusted_period == ethereum_client_state.latest_slot \div length
        target_period == finality_update.finalized_slot \div length
    IN /\ result # "panic"
       /\ pc \in {"planner_loop", "final_header"} =>
             /\ request.start_period = trusted_period
             /\ request.count = IF target_period < trusted_period THEN 1
                                ELSE target_period - trusted_period + 1

\* C11: the entry step of relay_events sets minimum_block_number to the
\* latest block of the Ethereum chain when dest_events is non-empty;
\* otherwise to the largest block number an event of src_events carries, and
\* to the latest block when src_events is empty or no event carries one.
C11_MinimumBlockNumber ==
    [][(pc = "get_block_number" /\ pc' = "load_client_state") =>
         LET carried == {e \in {src_events[i] : i \in DOMAIN src_events} :
                            e.block_number # {}}
             blocks == {b \in 0..(BlockBase + MaxSlot) :
                           \E e \in carried : b \in e.block_number}
         IN IF dest_events # <<>> \/ carried = {}
            THEN minimum_block_number' = latest_block_number'
            ELSE /\ minimum_block_number' \in blocks
                 /\ \A b \in blocks : b <= minimum_block_number']_vars

C11_Witness ==
    /\ pc = "load_client_state"
    /\ timeout_msgs = <<>>
    /\ Len(recv_msgs) = 1 /\ Len(ack_msgs) = 1
    /\ minimum_block_number = BlockBase + MaxSlot - 1
    /\ latest_block_number > minimum_block_number

\* C12: a poll of wait_for_light_client_readiness that reads a finality
\* update (the fetch does not fail, the task is not cancelled) succeeds
\* exactly when the execution block number of its finalized header is at
\* least the target (equality suffices), never earlier; a poll
\* that reads a smaller block number leads to another poll, until the poll at
\* the deadline, which ends the wait with a timeout error.
C12_ReadinessWait ==
    [][(pc = "wait_readiness" /\ beacon_slot' = beacon_slot
          /\ result' \notin {"err", "cancelled"}) =>
         LET reported == FinalityUpdate.block_number
         IN /\ reported >= minimum_block_number =>
                   pc' = "reload_client_state" /\ result' = "none"
            /\ reported < minimum_block_number =>
                   IF polls + 1 < MaxPolls
                   THEN pc' = "wait_readiness" /\ polls' = polls + 1
                                               /\ result' = "none"
                   ELSE pc' = "done" /\ result' = "timeout"]_vars

C12_Witness ==
    /\ pc = "reload_client_state"
    /\ polls >= 1
    /\ FinalityUpdate.block_number = minimum_block_number

\* C13: a relay_events that ends by the deadline of the readiness wait or of
\* the post-assembly wait, by a cancellation at a suspension point, or by any
\* other error hands out no transaction body; a body is handed out only
\* with the Ok at the end of the call, and it is the whole assembled body.
C13_OutputOnlyAtTheEnd ==
    /\ output # None =>
          /\ result = "ok"
          /\ pc \in {"done", "deliver", "tx_failed", "committed"}
          /\ output = {tx_body}
    /\ result \in {"err", "timeout", "cancelled", "panic"} =>
          pc = "done" /\ output = None
    /\ pc \notin {"done", "deliver", "tx_failed", "committed"} =>
          result = "none" /\ output = None

C13_EndsWithoutBody ==
    pc' = "done" /\ result' \in {"timeout", "err", "cancelled"} /\ output' = None

C13_AtReadinessDeadline ==
    /\ pc = "wait_readiness" /\ beacon_slot' = beacon_slot
    /\ polls + 1 >= MaxPolls
    /\ FinalityUpdate.block_number < minimum_block_number

C13_AtPostAssemblyDeadline ==
    /\ pc = "post_wait" /\ dest_time' = dest_time
    /\ polls + 1 >= MaxPolls
    /\ headers # <<>>
    /\ (dest_time - GenesisTime) \div SecondsPerSlot
           <= headers[Len(headers)].consensus_update.signature_slot

C13_NoTxOnAbort ==
    /\ [][C13_AtReadinessDeadline => C13_EndsWithoutBody]_vars
    /\ [][C13_AtPostAssemblyDeadline => C13_EndsWithoutBody]_vars
    /\ [][result' = "cancelled" => (pc' = "done" /\ output' = None)]_vars
    /\ []C13_OutputOnlyAtTheEnd

\* The post-assembly wait reached its deadline: the destination clock moved
\* during the wait, the body had been assembled, and nothing was handed out.
C13_Witness ==
    /\ result = "timeout"
    /\ output = None
    /\ dest_time > GenesisTime + MaxTrusted * SecondsPerSlot + DestOffset

\* C14: a relay_events that produced headers returns its body only from a
\* poll that read a latest block of the destination whose slot, the whole
\* slots of seconds_per_slot between genesis_time and the block time, is
\* strictly greater than the signature slot of the last header; one that
\* produced no header returns from the first poll, which reads no block.
C14_PostAssemblyWait ==
    result = "ok" =>
        IF headers = <<>>
        THEN latests_tm_block = None /\ polls = 0
        ELSE \E time \in latests_tm_block :
                /\ time >= ethereum_client_state.genesis_time
                /\ (time - ethereum_client_state.genesis_time)
                       \div ethereum_client_state.seconds_per_slot
                     > headers[Len(headers)].consensus_update.signature_slot

C14_Witness ==
    /\ result = "ok"
    /\ headers # <<>>
    /\ polls >= 1
    /\ latests_tm_block =
           {GenesisTime + DestOffset + SecondsPerSlot
               * (headers[Len(headers)].consensus_update.signature_slot + 1)}

\* C15: the body a relay_events called with two empty event lists builds
\* holds no packet message, and it holds update messages exactly when the
\* latest block of the Ethereum chain read at the entry exceeds the
\* latest_execution_block_number of the client state loaded first: such a
\* call converts no message and targets the latest block, enters the update
\* branch exactly when that block exceeds the client's, and its body holds
\* update messages exactly when it entered the update branch.
C15_BodyOfEmptyCall ==
    (Built /\ no_events) =>
        /\ \A i \in DOMAIN tx_body : tx_body[i].kind = "update"
        /\ (\E i \in DOMAIN tx_body : tx_body[i].kind = "update")
              <=> minimum_block_number
                      > first_client_state.latest_execution_block_number

C15_EmptyEvents ==
    /\ [][(pc = "get_block_number" /\ pc' = "load_client_state"
              /\ src_events = <<>> /\ dest_events = <<>>)
            => (no_events /\ minimum_block_number' = latest_block_number'
                  /\ timeout_msgs' = <<>> /\ recv_msgs' = <<>>
                  /\ ack_msgs' = <<>>)]_vars
    /\ [][(pc = "load_client_state" /\ no_events
              /\ pc' \notin {"load_client_state", "done"})
            => (first_client_state' = client_state
                  /\ minimum_block_number' = latest_block_number
                  /\ (pc' = "wait_readiness"
                        <=> latest_block_number
                              > client_state.latest_execution_block_number))]_vars
    /\ []C15_BodyOfEmptyCall

C15_Witness ==
    /\ result = "ok"
    /\ no_events
    /\ Len(tx_body) >= 2
    /\ output = {tx_body}

\* C16: for every header of the planner exactly one get_proof request was
\* made, for the IBC contract address of the client state, with no storage
\* key, at the block named by "0x" and the hexadecimal digits of the
\* execution block number of that header's finalized header; the header's
\* account_update is the account proof and the storage root of that account
\* at that block.
C16_HexDigitsOf(digits, n) ==
    LET value[k \in 0..Len(digits)] ==
            IF k = 0 THEN 0 ELSE 16 * value[k - 1] + digits[k]
    IN /\ Len(digits) >= 1
       /\ \A k \in DOMAIN digits : digits[k] \in 0..15
       /\ Len(digits) > 1 => digits[1] # 0
       /\ value[Len(digits)] = n

C16_AccountProofAtHeaderBlock ==
    /\ Len(get_proof_calls) = Len(headers)
    /\ \A i \in DOMAIN headers :
          LET block_number == headers[i].consensus_update.block_number
              call == get_proof_calls[i]
              at == [account |-> "ibc_contract", block_number |-> block_number]
          IN /\ call.address = "ibc_contract"
             /\ call.address = ethereum_client_state.ibc_contract_address
             /\ call.storage_keys = <<>>
             /\ call.block.prefix = "0x"
             /\ C16_HexDigitsOf(call.block.digits, block_number)
             /\ headers[i].account_update =
                    [account_proof |->
                         [proof |-> [proves |-> "account", at |-> at],
                          storage_root |-> [proves |-> "storage_root", at |-> at]]]

C16_Witness ==
    /\ pc = "inject_proofs"
    /\ Len(headers) = 3
    /\ headers[1].consensus_update.block_number < 16
    /\ headers[3].consensus_update.block_number > 16
    /\ Len(get_proof_calls[3].block.digits) = 2

\* C17: the update messages of the body are one MsgUpdateClient per header
\* of the planner, in the order of the header list; the i-th has the
\* destination client identifier of the call, the signer of the builder, and
\* a client message that wraps the JSON serialization of the i-th header.
C17_UpdateMsgs ==
    Built =>
        /\ Cardinality({i \in DOMAIN tx_body : tx_body[i].kind = "update"})
               = Len(headers)
        /\ \A i \in DOMAIN headers :
              /\ tx_body[i].kind = "update"
              /\ tx_body[i].client_id = "client-on-cosmos"
              /\ tx_body[i].signer = "signer"
              /\ tx_body[i].client_message =
                     {[type_url |-> "ClientMessage",
                       value |-> [data |-> [format |-> "json",
                                            doc |-> headers[i]]]]}

C17_Witness ==
    /\ result = "ok"
    /\ Len(headers) = 3
    /\ headers[1] # headers[2] /\ headers[2] # headers[3]
    /\ Len(tx_body) > 3

\* C18: in a call that waits for readiness the steps follow one another in
\* the order load, wait, re-load, plan; from the re-load on the snapshot in
\* use is the one re-loaded after the wait: the planner's request and skips,
\* the proof requests, the proof slot and its fallback, and the slot of the
\* post-assembly wait are computed from it, not from the snapshot read before
\* the wait.
C18_Reloaded ==
    \/ pc \in {"finality_update", "light_client_updates", "planner_loop",
                "final_header"}
    \/ /\ pc \in {"inject_proofs", "build_tx", "post_wait", "done", "deliver",
                    "tx_failed"}
       /\ result \in {"none", "ok"}
       /\ minimum_block_number > first_client_state.latest_execution_block_number

C18_UsesReloadedSnapshot ==
    C18_Reloaded =>
        LET length == SlotsPerEpoch * EpochsPerSyncCommitteePeriod
            next == Tagged(headers, "Next")
        IN /\ ethereum_client_state = client_state
           /\ first_client_state.latest_slot <= client_state.latest_slot
           /\ pc \in {"planner_loop", "final_header"} =>
                 request.start_period = client_state.latest_slot \div length
           /\ \A i \in DOMAIN next :
                 next[i].consensus_update.finalized_slot > client_state.latest_slot
           /\ \A i \in DOMAIN get_proof_calls :
                 get_proof_calls[i].address = client_state.ibc_contract_address
           /\ (pc \in {"build_tx", "post_wait", "done", "deliver", "tx_failed"}
                 /\ headers = <<>>) => proof_slot = client_state.latest_slot
           /\ (result = "ok" /\ headers # <<>>) =>
                 \E time \in latests_tm_block :
                    (time - client_state.genesis_time)
                        \div client_state.seconds_per_slot
                      > headers[Len(headers)].consensus_update.signature_slot

C18_Sequential ==
    /\ [][(pc' = "wait_readiness" /\ pc # pc') => pc = "load_client_state"]_vars
    /\ [][(pc' = "reload_client_state" /\ pc # pc') => pc = "wait_readiness"]_vars
    /\ [][(pc' = "finality_update" /\ pc # pc') =>
              (pc = "reload_client_state"
                 /\ ethereum_client_state' = client_state)]_vars
    /\ [][(pc = "load_client_state" /\ pc' = "inject_proofs") =>
              (ethereum_client_state' = client_state
                 /\ first_client_state' = client_state)]_vars
    /\ []C18_UsesReloadedSnapshot

C18_Witness ==
    /\ result = "ok"
    /\ first_client_state.latest_slot < ethereum_client_state.latest_slot
    /\ OfKind(tx_body, "recv") # <<>>
    /\ Len(headers) >= 2

\* C19: after a successful instantiate, storage holds at HOST_CLIENT_STATE_KEY
\* the Any of a WasmClientState with the given client state bytes, the given
\* checksum and the height {0, latest_slot of the client state}, holds at
\* consensus_db_key(slot of the consensus state) the Any of a
\* WasmConsensusState with the given consensus state bytes, and holds the
\* record of the contract name and state version; the response has no messages.
C19_InstantiateStores ==
    contract_op = "instantiate" /\ contract_result = "Ok" =>
        \A msg \in contract_msg :
            LET given_client_state == msg.client_state.doc
                given_consensus_state == msg.consensus_state.doc
            IN /\ {HOST_CLIENT_STATE_KEY, CONTRACT_KEY,
                   consensus_db_key(given_consensus_state.slot)}
                      \subseteq DOMAIN storage
               /\ storage[HOST_CLIENT_STATE_KEY] =
                      [type_url |-> "WasmClientState",
                       value |->
                           [data |-> msg.client_state,
                            checksum |-> msg.checksum,
                            latest_height |->
                                {[revision_number |-> 0,
                                  revision_height |->
                                      given_client_state.latest_slot]}]]
               /\ storage[consensus_db_key(given_consensus_state.slot)] =
                      [type_url |-> "WasmConsensusState",
                       value |-> [data |-> msg.consensus_state]]
               /\ storage[CONTRACT_KEY] =
                      [contract |-> CONTRACT_NAME, version |-> STATE_VERSION]
               /\ \A r \in response : r.messages = <<>>
               /\ response # None

C19_Witness ==
    /\ contract_op = "instantiate"
    /\ contract_result = "Ok"
    /\ \E msg \in contract_msg :
          /\ msg.client_state.doc.latest_slot > 0
          /\ msg.consensus_state.doc.slot # msg.client_state.doc.latest_slot

\* C20: instantiate returns an error, and does not succeed, whenever the
\* client state bytes or the consensus state bytes fail to decode.
C20_IsClientStateJson(bytes) ==
    /\ bytes.format = "json"
    /\ \E slot \in Slots : bytes.doc = ClientStateAt(slot)
C20_IsConsensusStateJson(bytes) ==
    /\ bytes.format = "json"
    /\ \E slot \in Slots : bytes.doc = ConsensusStateAt(slot)
C20_InstantiateDecodeErrors ==
    contract_op = "instantiate" =>
        \A msg \in contract_msg :
            \/ ~C20_IsClientStateJson(msg.client_state)
            \/ ~C20_IsConsensusStateJson(msg.consensus_state)
            => contract_result = "Err" /\ response = None

C20_Witness ==
    /\ contract_op = "instantiate"
    /\ contract_result = "Err"
    /\ \E msg \in contract_msg :
          /\ C20_IsClientStateJson(msg.client_state)
          /\ ~C20_IsConsensusStateJson(msg.consensus_state)
          /\ msg.consensus_state.format = "json"

\* C21: migrate refuses unless the new state version is strictly newer than
\* the stored one: a migrate without payload by the build that instantiated
\* the contract (same state version) ends with an error.
C21_MigrateSameVersionRejected ==
    /\ contract_op = "migrate"
    /\ contract_msg = Some([instantiate_msg |-> None])
    /\ storage[CONTRACT_KEY].version = STATE_VERSION
    => contract_result = "Err"

C23_MigrateOverwrites ==
    contract_op = "migrate" /\ contract_result = "Ok" =>
        \A msg \in contract_msg : \A payload \in msg.instantiate_msg :
            LET envelope == storage[HOST_CLIENT_STATE_KEY].value
                payload_client_state == payload.client_state.doc
                payload_consensus_state == payload.consensus_state.doc
            IN /\ envelope.checksum = payload.checksum
               /\ envelope.data = payload.client_state
               /\ envelope.latest_height =
                      {[revision_number |-> 0,
                        revision_height |-> payload_client_state.latest_slot]}
               /\ consensus_db_key(payload_consensus_state.slot) \in DOMAIN storage
               /\ storage[consensus_db_key(payload_consensus_state.slot)] =
                      [type_url |-> "WasmConsensusState",
                       value |-> [data |-> payload.consensus_state]]

C23_Witness ==
    /\ contract_op = "migrate"
    /\ contract_result = "Ok"
    /\ \E msg \in contract_msg : \E payload \in msg.instantiate_msg :
          /\ payload.client_state.doc.latest_slot = 1
          /\ payload.consensus_state.doc.slot = 1
          /\ consensus_db_key(MaxContractSlot) \in DOMAIN storage

\* C24: a sudo call with VerifyUpgradeAndUpdateState or MigrateClientStore
\* never succeeds: it ends with an error or aborts, without a response, and
\* storage, the client state and the consensus states included, is as before.
C24_ReservedSudoFails ==
    [][/\ contract_op' = "sudo"
       /\ \E msg \in contract_msg' : msg.variant \in ReservedSudoMsgs
       => /\ contract_result' \in {"Err", "panic"}
          /\ response' = None
          /\ storage' = storage]_vars

C24_Witness ==
    /\ contract_op = "sudo"
    /\ contract_msg = Some([variant |-> "MigrateClientStore"])
    /\ contract_result # "Ok"
    /\ Cardinality(ConsensusKeys(storage)) > 1

\* C25: every entry point reports failure as a returned ContractError: no
\* call ends with a panic, whatever the message.
C25_NoPanic ==
    contract_result # "panic"

\* C26: every successful sudo UpdateState returns exactly one height,
\* {revision_number 0, revision_height the finalized slot of the header},
\* also for the later messages of a sequence of updates.
C26_UpdatedHeight ==
    contract_op = "sudo" /\ contract_result = "Ok" =>
        \A msg \in {m \in contract_msg : m.variant = "UpdateState"} :
            \A r \in response :
                /\ r.data # None
                /\ \A data \in r.data :
                      data.doc.heights =
                          <<[revision_number |-> 0,
                             revision_height |->
                                 msg.client_message.doc.consensus_update.finalized_slot]>>

C26_Witness ==
    /\ contract_op = "sudo"
    /\ contract_result = "Ok"
    /\ \E msg \in contract_msg :
          /\ msg.variant = "UpdateState"
          /\ msg.client_message.doc.consensus_update.finalized_slot = 1
    /\ Cardinality(ConsensusKeys(storage)) = MaxContractSlot + 1

\* C27: the client state becomes frozen only by a sudo
\* UpdateStateOnMisbehaviour, and once it is frozen no call, migrate
\* included, leaves it unfrozen.
C27_IsFrozen(st) ==
    /\ HOST_CLIENT_STATE_KEY \in DOMAIN st
    /\ st[HOST_CLIENT_STATE_KEY].value.data.doc.is_frozen
C27_FrozenIsTerminal ==
    /\ [][C27_IsFrozen(storage) => C27_IsFrozen(storage')]_vars
    /\ [][~C27_IsFrozen(storage) /\ C27_IsFrozen(storage') =>
             /\ contract_op' = "sudo"
             /\ \A msg \in contract_msg' :
                   msg.variant = "UpdateStateOnMisbehaviour"]_vars

\* C28: after every successful call the latest_slot of the stored client
\* state is the greatest slot a consensus state is stored at.
C28_LatestSlotIsMaxConsensusSlot ==
    contract_result = "Ok" =>
        LET stored_slots == {key[2] : key \in ConsensusKeys(storage)}
        IN /\ stored_slots # {}
           /\ storage[HOST_CLIENT_STATE_KEY].value.data.doc.latest_slot
                  \in stored_slots
           /\ \A slot \in stored_slots :
                  slot <= storage[HOST_CLIENT_STATE_KEY].value.data.doc.latest_slot

C30_ReadOnlyVariants == {"VerifyMembership", "VerifyNonMembership"}
C30_ReadOnly ==
    [][\/ contract_op' = "query"
       \/ /\ contract_op' = "sudo"
          /\ \E msg \in contract_msg' : msg.variant \in C30_ReadOnlyVariants
       => storage' = storage]_vars

C30_Witness ==
    /\ contract_op = "sudo"
    /\ contract_result = "Ok"
    /\ \E msg \in contract_msg : msg.variant = "VerifyMembership"

\* C31: a call of instantiate, sudo or migrate that returns an error leaves
\* storage, the version record included, as it was before the call.
C31_NoPartialStateOnError ==
    [][/\ contract_op' \in {"instantiate", "sudo", "migrate"}
       /\ contract_result' = "Err"
       => storage' = storage]_vars

\* C32: in the header list of get_update_headers every header built from a
\* light-client update is tagged Next with the committee bootstrapped at the
\* update's finalized slot; a Current-tagged header occurs only as the last
\* element, hence at most once, never while the loop runs, and is built from
\* the finality update.
C32_HeaderTags ==
    \A i \in DOMAIN headers :
        LET h == headers[i]
            built_from == h.consensus_update
        IN /\ h.active_sync_committee.tag \in {"Next", "Current"}
           /\ built_from.next_sync_committee = "present" =>
                 /\ h.active_sync_committee.tag = "Next"
                 /\ h.active_sync_committee.committee =
                        [bootstrap_slot |-> built_from.finalized_slot]
           /\ h.active_sync_committee.tag = "Current" =>
                 /\ i = Len(headers)
                 /\ pc # "planner_loop"
                 /\ built_from = finality_update
           /\ h.active_sync_committee.tag = "Next" =>
                 built_from = LightClientUpdate(built_from.finalized_slot)

C32_Witness ==
    /\ result = "ok"
    /\ Len(headers) = 2
    /\ headers[1].active_sync_committee =
           [tag |-> "Next",
            committee |-> [bootstrap_slot |->
                               headers[1].consensus_update.finalized_slot]]
    /\ headers[1].consensus_update.finalized_slot > 0
    /\ headers[2].active_sync_committee.tag = "Current"

\* C33: in the header built from the finality update F, the slot the Current
\* committee was fetched at (F's attested slot) and the slot the header
\* finalizes lie in the same sync-committee period.
C33_CommitteeOfFinalizedPeriod ==
    \A i \in DOMAIN headers :
        headers[i].active_sync_committee.tag = "Current" =>
            compute_sync_committee_period_at_slot(
                headers[i].active_sync_committee.committee.bootstrap_slot)
              = compute_sync_committee_period_at_slot(
                    headers[i].consensus_update.finalized_slot)

\* C34: when an external fetch fails at any of the fetch points of a relay
\* cycle (in the planner loop and inside a poll too), relay_events ends at
\* once with that error and without a transaction, whatever headers and
\* messages it had gathered, and it takes no further step afterwards.
C34_EndsWithError ==
    pc \in FetchPoints /\ result' = "err" =>
        /\ pc' = "done"
        /\ output' = None
        /\ headers' = <<>> /\ tx_body' = <<>>
C34_NoRetry ==
    result = "err" => UNCHANGED <<pc, result, output, headers, tx_body, polls>>
C34_FetchErrors ==
    /\ [][C34_EndsWithError]_vars
    /\ [][C34_NoRetry]_vars
    /\ [](result = "err" => pc = "done" /\ output = None)

C34_Witness ==
    /\ result = "err"
    /\ output = None
    /\ dest_time > GenesisTime + MaxTrusted * SecondsPerSlot + DestOffset

\* C35: every header of the plan, the final one built from the finality
\* update included, finalizes a slot strictly greater than latest_slot of the
\* client-state snapshot the plan was made from (also when another party
\* advanced the destination client during the readiness wait).
C35_HeadersAheadOfSnapshot ==
    \A i \in DOMAIN headers :
        headers[i].consensus_update.finalized_slot > ethereum_client_state.latest_slot

\* C36: whenever relay_events returns a transaction, the execution block
\* finalized at the slot the proofs are taken at is at least
\* minimum_block_number: with headers it is the block of the last header
\* (also when the finality update fetched by the planner is newer than the
\* one the readiness wait saw), without headers it is
\* latest_execution_block_number of the client state.
C36_ProofBlockCoversEvents ==
    result = "ok" =>
        /\ proof_slot = ProofSlot(headers, ethereum_client_state)
        /\ IF headers # <<>>
           THEN /\ Last(headers).consensus_update.finalized_slot = proof_slot
                /\ Last(headers).consensus_update.block_number >= minimum_block_number
           ELSE /\ ethereum_client_state.latest_slot = proof_slot
                /\ ethereum_client_state.latest_execution_block_number
                       >= minimum_block_number

C36_Witness ==
    /\ result = "ok"
    /\ headers # <<>>
    /\ minimum_block_number > first_client_state.latest_execution_block_number
    /\ Last(headers).consensus_update.block_number > minimum_block_number
    /\ client_state.latest_slot > first_client_state.latest_slot

\* C37: when every external call returns, every invocation of relay_events
\* comes to an end, with a transaction body or without one: the planner loop
\* runs once per fetched update and each poll loop ends at its deadline at
\* the latest.
C37_Ended ==
    /\ pc = "done"
    /\ result # "none"
    /\ result = "ok" <=> output = Some(tx_body)
    /\ result # "ok" <=> output = None
C37_Terminates == (pc = "get_block_number") ~> C37_Ended

C37_Witness ==
    /\ pc = "done" /\ result = "ok"
    /\ Len(headers) >= 2
    /\ polls > 0
    /\ beacon_slot > 1

\* C38: a poll of the post-assembly wait that reads a block time for which
\* no slot can be computed (negative, or before genesis_time) ends the call
\* with an error or leaves it polling; the relay task does not crash.
C38_NoSlot ==
    \/ try_into_u64(dest_time) = None
    \/ compute_slot_at_timestamp(ethereum_client_state, dest_time) = None
C38_PollOutcome ==
    pc = "post_wait" /\ headers # <<>> /\ C38_NoSlot =>
        \/ result' \in {"err", "timeout", "cancelled"}
        \/ pc' = "post_wait" /\ result' = "none"
C38_NoCrashOnEarlyClock == [][C38_PollOutcome]_vars

====
